---- MODULE Spec2Model ----
(***************************************************************************)
(* Progress/completion state machine and quiz grading of the lmsapp        *)
(* backend (src/lmsapp/views.py, src/lmsapp/models.py): one student, one   *)
(* course, the course's lessons, one quiz, and the rows the student's      *)
(* requests create: Enrollment, LessonProgress, QuizAttempt, Certificate.  *)
(*                                                                         *)
(* The views read Quiz.max_attempts, which models.py does not declare; the *)
(* model takes it as a field of the Quiz row, as the specification's data  *)
(* model does.  Timestamps are kept as null or set; last_accessed is not   *)
(* kept.  Percentages are integers in hundredths of a percent.             *)
(***************************************************************************)
EXTENDS Integers, Sequences, FiniteSets, Bags, TLC

VARIABLES
    lessons,        \* ids of the Lesson rows of the course
    published,      \* Course.is_published
    quiz,           \* the Quiz row (NoQuiz when the course has no quiz)
    questions,      \* question id -> Question row of the quiz
    db,             \* the student's rows: enrollment, progress, attempts, certs
    nextToken,      \* source of uuid4 draws
    resp,           \* the response to the last request
    lessonsChanged, \* history: a lesson was created since the initial state
    pre,            \* history: digest of the student's rows before the last request
    req             \* concurrent requests in flight (SpecConc only)

vars == <<lessons, published, quiz, questions, db, nextToken, resp, lessonsChanged, pre, req>>

-----------------------------------------------------------------------------
(* Bounds of the model *)

MaxLessons == 2
MaxTokens == 2
MaxAnswers == 2
MaxPoints == 3
MaxAttemptsBound == 2
ExtraRequests == 1

NULL == "null"
Now == "now"

LessonIds == 1..MaxLessons
Tokens == 1..MaxTokens

-----------------------------------------------------------------------------
(* Catalog *)

\* The lesson a quiz is attached to (Quiz.lesson, one-to-one).
QuizLesson == 1

\* Question ids of the quiz, and an id that belongs to no question of the quiz.
QuestionIds == {1, 2}
UnknownQuestionId == 9

AnswerStrings == {"a", "B"}

\* str.lower() on the answer strings of the model.
lower(s) == IF s = "A" THEN "a" ELSE IF s = "B" THEN "b" ELSE s

\* Question rows: correct_answer and points.
QuestionRow(ans, pts) == [correct_answer |-> ans, points |-> pts]

\* Quiz rows: lesson, is_active, passing_score, max_attempts.
QuizRow(act, ps, ma) ==
    [exists |-> TRUE, lesson |-> QuizLesson, is_active |-> act,
     passing_score |-> ps, max_attempts |-> ma]

NoQuiz ==
    [exists |-> FALSE, lesson |-> 0, is_active |-> FALSE,
     passing_score |-> 0, max_attempts |-> 0]

\* Quiz.max_attempts as read by the views.
max_attempts(qz) == qz.max_attempts

\* Course.total_lessons()
total_lessons(ls) == Cardinality(ls)

-----------------------------------------------------------------------------
(* Rows of the student; the QuizAttempt rows of (student, quiz) are a bag *)

\* A row that does not exist in its table; rows is the number of rows the
\* table holds under the row's key: (student, course), (student, lesson).
NoRow == [exists |-> FALSE, rows |-> 0, completed |-> FALSE, completed_at |-> NULL]

EnrollmentRow(c, at) == [exists |-> TRUE, rows |-> 1, completed |-> c, completed_at |-> at]
ProgressRow(c, at) == [exists |-> TRUE, rows |-> 1, completed |-> c, completed_at |-> at]
AttemptRow(s, p) == [score |-> s, passed |-> p]

EmptyDb ==
    [enrollment |-> NoRow,
     progress |-> [l \in LessonIds |-> NoRow],
     attempts |-> EmptyBag,
     certs |-> {}]

\* LessonProgress.objects.filter(enrollment=enrollment, completed=True).count()
completed_lessons(d) ==
    Cardinality({l \in LessonIds : d.progress[l].exists /\ d.progress[l].completed})

\* What the history variable pre keeps of the rows d.
Digest(d) ==
    [enrolled |-> d.enrollment.exists,
     completed |-> d.enrollment.completed,
     done |-> completed_lessons(d),
     rows |-> Cardinality({l \in LessonIds : d.progress[l].exists}),
     attempts |-> BagCardinality(d.attempts),
     certs |-> d.certs]

\* The response record of a request.
Response(op, status, error) ==
    [op |-> op, status |-> status, error |-> error,
     score |-> -1, passed |-> FALSE, best_score |-> -1]

-----------------------------------------------------------------------------
(* Quiz grading: QuizAttemptViewSet.create, "Calculate score" *)

RECURSIVE SumPoints(_, _)
SumPoints(qs, ids) ==
    IF ids = {} THEN 0
    ELSE LET q == CHOOSE x \in ids : TRUE
         IN  qs[q].points + SumPoints(qs, ids \ {q})

\* max_score = sum(q.points for q in questions)
max_score(qs) == SumPoints(qs, DOMAIN qs)

\* is_correct = question.correct_answer.lower() == str(user_answer).lower()
is_correct(question, user_answer) == lower(question.correct_answer) = lower(user_answer)

\* Mutant: the points are assigned, not added (total_score = question.points):
\* the total is the points of the last correct answer of the list.
total_score_assigned(qs, answers) ==
    LET correct == {i \in 1..Len(answers) :
                       /\ answers[i].question_id \in DOMAIN qs
                       /\ is_correct(qs[answers[i].question_id], answers[i].answer)}
    IN  IF correct = {} THEN 0
        ELSE LET last == CHOOSE i \in correct : \A j \in correct : j <= i
             IN  qs[answers[last].question_id].points

\* The loop over the submitted answers: an answer whose question_id names no
\* question of the quiz is skipped; a correct one adds the question's points.
RECURSIVE total_score(_, _)
total_score(qs, answers) ==
    IF answers = <<>> THEN 0
    ELSE LET answer == Head(answers)
             rest == total_score(qs, Tail(answers))
         IN  IF answer.question_id \in DOMAIN qs
                /\ is_correct(qs[answer.question_id], answer.answer)
             THEN qs[answer.question_id].points + rest
             ELSE rest

\* round(n / d, 0) for d > 0 and n >= 0, ties to even as Python's round.
RoundHalfEven(n, d) ==
    LET q == n \div d
        r == n % d
    IN  IF 2 * r < d THEN q
        ELSE IF 2 * r > d THEN q + 1
        ELSE IF q % 2 = 0 THEN q ELSE q + 1

\* percentage = round((total_score / max_score) * 100, 2) if max_score > 0 else 0,
\* in hundredths of a percent (7500 is 75.00).
percentage(total, max) == IF max > 0 THEN RoundHalfEven(total * 10000, max) ELSE 0

\* passed = percentage >= quiz.passing_score
passed(pct, qz) == pct >= qz.passing_score * 100

\* models.IntegerField stores int(value): QuizAttempt.score keeps the whole
\* percent of the percentage it is given (in hundredths again: 3333 -> 3300).
IntegerField(pct) == IF pct >= 0 THEN (pct \div 100) * 100 ELSE -(((-pct) \div 100) * 100)

-----------------------------------------------------------------------------
(* Certificate issuance and course completion *)

\* certificate_id = f"CERT-{uuid.uuid4().hex[:12].upper()}": a token that was
\* never drawn before.
uuid4(tok) == tok

\* The digits of str.hex and their upper case.
HexDigits == <<"0", "1", "2", "3", "4", "5", "6", "7", "8", "9", "a", "b", "c", "d", "e", "f">>
UpperDigits == <<"0", "1", "2", "3", "4", "5", "6", "7", "8", "9", "A", "B", "C", "D", "E", "F">>

UuidLength == 32
IdLength == 12

\* The draws of uuid.uuid4() in the runs with concurrent certificate requests:
\* draws 1 and 2 agree on their first IdLength digits and differ after them,
\* every later pair of draws likewise.
Uuids == 1..(MaxTokens + 1)

\* uuid.uuid4().hex: UuidLength digits, the version digit 4 at position 13 and
\* the variant digit 8..b at position 17
uuid4_hex(u) ==
    [i \in 1..UuidLength |->
        HexDigits[1 + (IF i <= IdLength THEN (((u + 1) \div 2) * 7 + i * 3) % 16
                       ELSE IF i = 13 THEN 4
                       ELSE IF i = 17 THEN 8 + (u % 4)
                       ELSE (u * 5 + i) % 16)]]

\* str.upper on a string of hex digits
upper(str) ==
    [i \in 1..Len(str) |->
        IF \E n \in 1..16 : HexDigits[n] = str[i]
        THEN UpperDigits[CHOOSE n \in 1..16 : HexDigits[n] = str[i]]
        ELSE str[i]]

\* Mutant: the digits are kept in the case of str.hex.
certificate_id_of_without_upper(u) ==
    <<"C", "E", "R", "T", "-">> \o SubSeq(uuid4_hex(u), 1, IdLength)

\* f"CERT-{uuid.uuid4().hex[:12].upper()}"
certificate_id_of(u) ==
    <<"C", "E", "R", "T", "-">> \o upper(SubSeq(uuid4_hex(u), 1, IdLength))

\* Mutant: the existence test is inverted, so a first certificate is never created.
LessonViewSet_generate_certificate_inverted(d, tok) ==
    IF d.certs # {} THEN [d EXCEPT !.certs = @ \cup {uuid4(tok)}] ELSE d

\* LessonViewSet._generate_certificate
LessonViewSet_generate_certificate(d, tok) ==
    IF d.certs = {} THEN [d EXCEPT !.certs = @ \cup {uuid4(tok)}] ELSE d

\* Mutant: the course counts as complete as soon as one lesson is.
LessonViewSet_check_course_completion_any(d, ls, tok) ==
    IF completed_lessons(d) > 0 /\ total_lessons(ls) > 0
    THEN LessonViewSet_generate_certificate(
             [d EXCEPT !.enrollment = EnrollmentRow(TRUE, Now)], tok)
    ELSE d

\* LessonViewSet._check_course_completion
LessonViewSet_check_course_completion(d, ls, tok) ==
    IF total_lessons(ls) = completed_lessons(d) /\ total_lessons(ls) > 0
    THEN LessonViewSet_generate_certificate(
             [d EXCEPT !.enrollment = EnrollmentRow(TRUE, Now)], tok)
    ELSE d

\* Mutant: a certificate is created whether or not one exists.
QuizAttemptViewSet_generate_certificate_always(d, tok) ==
    [d EXCEPT !.certs = @ \cup {uuid4(tok)}]

\* QuizAttemptViewSet._generate_certificate
QuizAttemptViewSet_generate_certificate(d, tok) ==
    IF d.certs = {} THEN [d EXCEPT !.certs = @ \cup {uuid4(tok)}] ELSE d

\* QuizAttemptViewSet._check_course_completion
QuizAttemptViewSet_check_course_completion(d, ls, tok) ==
    IF total_lessons(ls) = completed_lessons(d) /\ total_lessons(ls) > 0
    THEN QuizAttemptViewSet_generate_certificate(
             [d EXCEPT !.enrollment = EnrollmentRow(TRUE, Now)], tok)
    ELSE d

\* LessonProgress.objects.update_or_create(..., defaults={'completed': True, ...})
update_or_create_completed(d, l) == [d EXCEPT !.progress[l] = ProgressRow(TRUE, Now)]

\* The draw of uuid4 is consumed when a certificate row was created with it.
TokenAfter(d2, tok) == IF tok \in d2.certs THEN tok + 1 ELSE tok

-----------------------------------------------------------------------------
(* Request handlers: each yields the rows after the request and its response *)

Result(d, r) == [db |-> d, resp |-> r]

\* CourseViewSet.get_queryset, for a student: Course.objects.filter(is_published=True)
CourseVisible == published

\* LessonViewSet.get_queryset, for a student: the lessons of the enrolled courses
LessonVisible(l) == l \in lessons /\ db.enrollment.exists

\* Mutant: the Enrollment is created without the LessonProgress rows.
enroll_result_without_progress ==
    IF ~CourseVisible THEN Result(db, Response("enroll", 404, "NotFound"))
    ELSE IF db.enrollment.exists
    THEN Result(db, Response("enroll", 200, "AlreadyEnrolled"))
    ELSE IF ~published
    THEN Result(db, Response("enroll", 400, "CourseUnavailable"))
    ELSE Result([db EXCEPT !.enrollment = EnrollmentRow(FALSE, NULL)],
                Response("enroll", 201, ""))

\* CourseViewSet.enroll
enroll_result ==
    IF ~CourseVisible THEN Result(db, Response("enroll", 404, "NotFound"))
    ELSE IF db.enrollment.exists
    THEN Result(db, Response("enroll", 200, "AlreadyEnrolled"))
    ELSE IF ~published
    THEN Result(db, Response("enroll", 400, "CourseUnavailable"))
    ELSE Result([db EXCEPT !.enrollment = EnrollmentRow(FALSE, NULL),
                           !.progress = [l \in LessonIds |->
                                            IF l \in lessons THEN ProgressRow(FALSE, NULL)
                                            ELSE @[l]]],
                Response("enroll", 201, ""))

\* Mutant: the QuizAttempt rows of the enrollment are not deleted.
unenroll_result_keeps_attempts ==
    IF ~CourseVisible THEN Result(db, Response("unenroll", 404, "NotFound"))
    ELSE IF ~db.enrollment.exists
    THEN Result(db, Response("unenroll", 400, "NotEnrolled"))
    ELSE Result([EmptyDb EXCEPT !.attempts = db.attempts], Response("unenroll", 200, ""))

\* CourseViewSet.unenroll
unenroll_result ==
    IF ~CourseVisible THEN Result(db, Response("unenroll", 404, "NotFound"))
    ELSE IF ~db.enrollment.exists
    THEN Result(db, Response("unenroll", 400, "NotEnrolled"))
    ELSE Result(EmptyDb, Response("unenroll", 200, ""))

\* Mutant: the row a first view creates is a completed one.
retrieve_result_creates_completed(l) ==
    IF ~LessonVisible(l) THEN Result(db, Response("retrieve", 404, "NotFound"))
    ELSE IF db.progress[l].exists
    THEN Result(db, Response("retrieve", 200, ""))
    ELSE Result([db EXCEPT !.progress[l] = ProgressRow(TRUE, Now)],
                Response("retrieve", 200, ""))

\* LessonViewSet.retrieve
retrieve_result(l) ==
    IF ~LessonVisible(l) THEN Result(db, Response("retrieve", 404, "NotFound"))
    ELSE IF db.progress[l].exists
    THEN Result(db, Response("retrieve", 200, ""))
    ELSE Result([db EXCEPT !.progress[l] = ProgressRow(FALSE, NULL)],
                Response("retrieve", 200, ""))

\* Mutant: the quiz gate does not test quiz.questions.exists().
quiz_required_without_questions(l) ==
    quiz.exists /\ quiz.lesson = l /\ quiz.is_active

\* quiz = Quiz.objects.filter(lesson=lesson, is_active=True).first();
\* quiz and quiz.questions.exists()
quiz_required(l) ==
    quiz.exists /\ quiz.lesson = l /\ quiz.is_active /\ DOMAIN questions # {}

\* QuizAttempt.objects.filter(student=..., quiz=quiz, passed=True).exists()
quiz_passed(d) == \E a \in BagToSet(d.attempts) : a.passed

\* LessonViewSet.mark_complete
mark_complete_result(l) ==
    IF ~LessonVisible(l) THEN Result(db, Response("mark_complete", 404, "NotFound"))
    ELSE IF quiz_required(l) /\ ~quiz_passed(db)
    THEN Result(db, Response("mark_complete", 400, "QuizRequired"))
    ELSE Result(LessonViewSet_check_course_completion(
                    update_or_create_completed(db, l), lessons, nextToken),
                Response("mark_complete", 200, ""))

\* Mutant: the enrollment is reopened but its certificate is kept.
reset_result_keeps_certificate(l) ==
    IF l \notin lessons THEN Result(db, Response("reset", 404, "NotFound"))
    ELSE IF ~db.enrollment.exists
    THEN Result(db, Response("reset", 403, "PermissionDenied"))
    ELSE IF ~db.progress[l].exists
    THEN Result(db, Response("reset", 404, "NotFound"))
    ELSE LET d1 == [db EXCEPT !.progress[l] = ProgressRow(FALSE, NULL)]
         IN  IF d1.enrollment.completed /\ completed_lessons(d1) < total_lessons(lessons)
             THEN Result([d1 EXCEPT !.enrollment = EnrollmentRow(FALSE, NULL)],
                         Response("reset", 200, ""))
             ELSE Result(d1, Response("reset", 200, ""))

\* Mutant: a missing LessonProgress row is created by the reset.
reset_result_get_or_create(l) ==
    IF l \notin lessons THEN Result(db, Response("reset", 404, "NotFound"))
    ELSE IF ~db.enrollment.exists
    THEN Result(db, Response("reset", 403, "PermissionDenied"))
    ELSE LET d1 == [db EXCEPT !.progress[l] = ProgressRow(FALSE, NULL)]
         IN  IF d1.enrollment.completed /\ completed_lessons(d1) < total_lessons(lessons)
             THEN Result([d1 EXCEPT !.enrollment = EnrollmentRow(FALSE, NULL),
                                    !.certs = {}],
                         Response("reset", 200, ""))
             ELSE Result(d1, Response("reset", 200, ""))

\* LessonProgressViewSet.reset
reset_result(l) ==
    IF l \notin lessons THEN Result(db, Response("reset", 404, "NotFound"))
    ELSE IF ~db.enrollment.exists
    THEN Result(db, Response("reset", 403, "PermissionDenied"))
    ELSE IF ~db.progress[l].exists
    THEN Result(db, Response("reset", 404, "NotFound"))
    ELSE LET d1 == [db EXCEPT !.progress[l] = ProgressRow(FALSE, NULL)]
         IN  IF d1.enrollment.completed /\ completed_lessons(d1) < total_lessons(lessons)
             THEN Result([d1 EXCEPT !.enrollment = EnrollmentRow(FALSE, NULL),
                                    !.certs = {}],
                         Response("reset", 200, ""))
             ELSE Result(d1, Response("reset", 200, ""))

\* QuizAttempt.objects.filter(student=..., quiz=quiz).count()
attempt_count(d) == BagCardinality(d.attempts)

\* order_by('-score').first() over the attempts of (student, quiz)
best_attempt(d) ==
    CHOOSE a \in BagToSet(d.attempts) : \A b \in BagToSet(d.attempts) : b.score <= a.score

\* Mutant: a passing attempt completes the lesson but the course completion is
\* not evaluated again.
grade_without_completion_check(d, answers) ==
    LET pct == percentage(total_score(questions, answers), max_score(questions))
        ok == passed(pct, quiz)
        d1 == [d EXCEPT !.attempts = @ (+) SetToBag({AttemptRow(IntegerField(pct), ok)})]
    IN  IF ok THEN update_or_create_completed(d1, quiz.lesson) ELSE d1

\* Mutant: the progress of the quiz's lesson is written with the outcome of
\* every attempt, so a failed one reopens the lesson.
grade_writes_every_outcome(d, answers) ==
    LET pct == percentage(total_score(questions, answers), max_score(questions))
        ok == passed(pct, quiz)
        d1 == [d EXCEPT !.attempts = @ (+) SetToBag({AttemptRow(IntegerField(pct), ok)})]
    IN  IF ok
        THEN QuizAttemptViewSet_check_course_completion(
                 update_or_create_completed(d1, quiz.lesson), lessons, nextToken)
        ELSE [d1 EXCEPT !.progress[quiz.lesson] = ProgressRow(FALSE, NULL)]

\* QuizAttemptViewSet.create, after the attempt count was taken: the score, the
\* stored attempt, and the completion of the quiz's lesson when it passed.
grade(d, answers) ==
    LET pct == percentage(total_score(questions, answers), max_score(questions))
        ok == passed(pct, quiz)
        d1 == [d EXCEPT !.attempts = @ (+) SetToBag({AttemptRow(IntegerField(pct), ok)})]
    IN  IF ok
        THEN QuizAttemptViewSet_check_course_completion(
                 update_or_create_completed(d1, quiz.lesson), lessons, nextToken)
        ELSE d1

\* Mutant: the limit is tested with > in place of >=.
create_result_off_by_one(answers) ==
    IF ~(quiz.exists /\ quiz.is_active)
    THEN Result(db, Response("create", 404, "NotFound"))
    ELSE IF ~db.enrollment.exists
    THEN Result(db, Response("create", 403, "PermissionDenied"))
    ELSE IF attempt_count(db) > max_attempts(quiz)
    THEN Result(db, [Response("create", 400, "AttemptsExhausted") EXCEPT
                        !.best_score = IF attempt_count(db) = 0 THEN -1
                                       ELSE best_attempt(db).score,
                        !.passed = IF attempt_count(db) = 0 THEN FALSE
                                   ELSE best_attempt(db).passed])
    ELSE LET pct == percentage(total_score(questions, answers), max_score(questions))
         IN  Result(grade(db, answers),
                    [Response("create", 201, "") EXCEPT
                        !.score = pct, !.passed = passed(pct, quiz)])

\* QuizAttemptViewSet.create
create_result(answers) ==
    IF ~(quiz.exists /\ quiz.is_active)
    THEN Result(db, Response("create", 404, "NotFound"))
    ELSE IF ~db.enrollment.exists
    THEN Result(db, Response("create", 403, "PermissionDenied"))
    ELSE IF attempt_count(db) >= max_attempts(quiz)
    THEN Result(db, [Response("create", 400, "AttemptsExhausted") EXCEPT
                        !.best_score = IF attempt_count(db) = 0 THEN -1
                                       ELSE best_attempt(db).score,
                        !.passed = IF attempt_count(db) = 0 THEN FALSE
                                   ELSE best_attempt(db).passed])
    ELSE LET pct == percentage(total_score(questions, answers), max_score(questions))
         IN  Result(grade(db, answers),
                    [Response("create", 201, "") EXCEPT
                        !.score = pct, !.passed = passed(pct, quiz)])

\* Values of course_id in a regenerate request: none, this course, no course.
NoCourseId == 0
CourseId == 1
OtherCourseId == 2

\* Mutant: the existing certificate is not deleted before the new one is created.
regenerate_result_keeps_old(course_id) ==
    IF course_id = NoCourseId
    THEN Result(db, Response("regenerate", 400, "ValidationError"))
    ELSE IF ~(course_id = CourseId /\ db.enrollment.exists /\ db.enrollment.completed)
    THEN Result(db, Response("regenerate", 400, "NotCompleted"))
    ELSE Result([db EXCEPT !.certs = @ \cup {uuid4(nextToken)}],
                Response("regenerate", 201, ""))

\* Mutant: the new certificate row is given the certificate_id of the old one.
regenerate_result_reuses_id(course_id) ==
    IF course_id = NoCourseId
    THEN Result(db, Response("regenerate", 400, "ValidationError"))
    ELSE IF ~(course_id = CourseId /\ db.enrollment.exists /\ db.enrollment.completed)
    THEN Result(db, Response("regenerate", 400, "NotCompleted"))
    ELSE Result([db EXCEPT !.certs = IF @ = {} THEN {uuid4(nextToken)} ELSE @],
                Response("regenerate", 201, ""))

\* Mutant: the enrollment is looked up without completed=True.
regenerate_result_any_enrollment(course_id) ==
    IF course_id = NoCourseId
    THEN Result(db, Response("regenerate", 400, "ValidationError"))
    ELSE IF ~(course_id = CourseId /\ db.enrollment.exists)
    THEN Result(db, Response("regenerate", 400, "NotCompleted"))
    ELSE Result([db EXCEPT !.certs = {uuid4(nextToken)}],
                Response("regenerate", 201, ""))

\* Mutant: the certificates are deleted and no new one is created.
regenerate_result_deletes_only(course_id) ==
    IF course_id = NoCourseId THEN Result(db, Response("regenerate", 400, "ValidationError"))
    ELSE IF ~(course_id = CourseId /\ db.enrollment.exists /\ db.enrollment.completed)
    THEN Result(db, Response("regenerate", 400, "NotCompleted"))
    ELSE Result([db EXCEPT !.certs = {}], Response("regenerate", 201, ""))

\* CertificateViewSet.regenerate
regenerate_result(course_id) ==
    IF course_id = NoCourseId
    THEN Result(db, Response("regenerate", 400, "ValidationError"))
    ELSE IF ~(course_id = CourseId /\ db.enrollment.exists /\ db.enrollment.completed)
    THEN Result(db, Response("regenerate", 400, "NotCompleted"))
    ELSE Result([db EXCEPT !.certs = {uuid4(nextToken)}],
                Response("regenerate", 201, ""))

\* CertificateViewSet.verify
verify_result(certificate_id) ==
    IF certificate_id \in db.certs
    THEN Result(db, Response("verify", 200, ""))
    ELSE Result(db, Response("verify", 404, "NotFound"))

\* CertificateViewSet.permission_classes = [IsAuthenticated]
CertificateViewSet_permission_classes(authenticated) == authenticated

\* GET certificates/verify/<certificate_id>/ (urls.py 29): the view is bound by
\* as_view({'get': 'verify'}), which takes the permissions of the class, not
\* the permission_classes=[] of the action decorator
verify_request(authenticated, certificate_id) ==
    IF ~CertificateViewSet_permission_classes(authenticated)
    THEN Result(db, Response("verify", 401, "NotAuthenticated"))
    ELSE verify_result(certificate_id)

-----------------------------------------------------------------------------
(* Inputs *)

Answer(q, a) == [question_id |-> q, answer |-> a]
Answers == {Answer(q, a) : q \in QuestionIds \cup {UnknownQuestionId}, a \in AnswerStrings}
AnswerLists == UNION {[1..n -> Answers] : n \in 0..MaxAnswers}

\* The answer lists the student submits in the sequential specification: none,
\* one answer (right, wrong, in the other case, to an unknown question), both.
Submissions ==
    {<<>>, <<Answer(1, "a")>>, <<Answer(1, "B")>>, <<Answer(2, "B")>>,
     <<Answer(UnknownQuestionId, "a")>>, <<Answer(1, "a"), Answer(2, "B")>>}

-----------------------------------------------------------------------------
(* Actions: one request each, executed as a whole *)

Catalog == <<lessons, published, quiz, questions, lessonsChanged>>

\* A request of the student, with the result its handler computes.
Serve(r) ==
    /\ r.db.certs \subseteq Tokens
    /\ db' = r.db
    /\ resp' = r.resp
    /\ pre' = Digest(db)
    /\ nextToken' = TokenAfter(r.db, nextToken)
    /\ UNCHANGED <<Catalog, req>>

enroll == Serve(enroll_result)

unenroll == Serve(unenroll_result)

retrieve == \E l \in LessonIds : Serve(retrieve_result(l))

mark_complete == \E l \in LessonIds : Serve(mark_complete_result(l))

reset == \E l \in LessonIds : Serve(reset_result(l))

create == \E answers \in Submissions : Serve(create_result(answers))

regenerate == \E c \in {NoCourseId, CourseId, OtherCourseId} : Serve(regenerate_result(c))

verify == \E t \in Tokens, authenticated \in BOOLEAN : Serve(verify_request(authenticated, t))

\* Mutant: the new lesson is given a LessonProgress row of the enrolled student.
perform_create_with_progress ==
    /\ Cardinality(lessons) < MaxLessons
    /\ lessons' = lessons \cup {Cardinality(lessons) + 1}
    /\ lessonsChanged' = TRUE
    /\ resp' = Response("perform_create", 201, "")
    /\ pre' = Digest(db)
    /\ db' = IF db.enrollment.exists
             THEN [db EXCEPT !.progress[Cardinality(lessons) + 1] = ProgressRow(FALSE, NULL)]
             ELSE db
    /\ UNCHANGED <<published, quiz, questions, nextToken, req>>

\* LessonViewSet.perform_create, by the course's instructor
perform_create ==
    /\ Cardinality(lessons) < MaxLessons
    /\ lessons' = lessons \cup {Cardinality(lessons) + 1}
    /\ lessonsChanged' = TRUE
    /\ resp' = Response("perform_create", 201, "")
    /\ pre' = Digest(db)
    /\ UNCHANGED <<published, quiz, questions, db, nextToken, req>>

\* CourseViewSet.partial_update of is_published, by the course's instructor
partial_update ==
    /\ published' = ~published
    /\ resp' = Response("partial_update", 200, "")
    /\ pre' = Digest(db)
    /\ UNCHANGED <<lessons, quiz, questions, db, nextToken, lessonsChanged, req>>

PassingScores == {70}

\* Question sets of the quiz: none, or two questions worth 1 and 3 points.
NoQuestions == [q \in {} |-> QuestionRow("a", 0)]
TwoQuestions == [q \in QuestionIds |-> IF q = 1 THEN QuestionRow("A", 1) ELSE QuestionRow("b", 3)]

\* QuizViewSet.perform_create, by the course's instructor: the quiz of lesson
\* QuizLesson, without questions yet
quiz_perform_create ==
    /\ ~quiz.exists
    /\ QuizLesson \in lessons
    /\ quiz' \in {QuizRow(act, ps, ma) : act \in BOOLEAN, ps \in PassingScores,
                                          ma \in 1..MaxAttemptsBound}
    /\ resp' = Response("quiz_perform_create", 201, "")
    /\ pre' = Digest(db)
    /\ UNCHANGED <<lessons, published, questions, db, nextToken, lessonsChanged, req>>

\* QuestionViewSet.perform_create, by the course's instructor: the next question
\* of the quiz
question_perform_create ==
    /\ quiz.exists
    /\ DOMAIN questions # QuestionIds
    /\ questions' = [q \in DOMAIN questions \cup {Cardinality(DOMAIN questions) + 1} |->
                        TwoQuestions[q]]
    /\ resp' = Response("question_perform_create", 201, "")
    /\ pre' = Digest(db)
    /\ UNCHANGED <<lessons, published, quiz, db, nextToken, lessonsChanged, req>>

-----------------------------------------------------------------------------
(* Specification: sequential requests on one course *)

Init ==
    /\ lessons \in {1..n : n \in 0..MaxLessons}
    /\ published = TRUE
    /\ \/ quiz = NoQuiz /\ questions = NoQuestions
       \/ /\ QuizLesson \in lessons
          /\ quiz \in {QuizRow(act, ps, ma) : act \in BOOLEAN, ps \in PassingScores,
                                               ma \in 1..MaxAttemptsBound}
          /\ questions \in {NoQuestions, TwoQuestions}
    /\ db = EmptyDb
    /\ nextToken = 1
    /\ resp = Response("none", 0, "")
    /\ lessonsChanged = FALSE
    /\ pre = Digest(EmptyDb)
    /\ req = <<>>

Next ==
    \/ enroll
    \/ unenroll
    \/ retrieve
    \/ mark_complete
    \/ reset
    \/ create
    \/ regenerate
    \/ verify
    \/ perform_create
    \/ partial_update

Spec == Init /\ [][Next]_vars

-----------------------------------------------------------------------------
(* Specification: a course that grows while the student is enrolled: the     *)
(* instructor adds lessons, the quiz and its questions between the requests  *)
(* of the student.                                                           *)

InitLate ==
    /\ lessons \in {1..n : n \in 0..MaxLessons}
    /\ published = TRUE
    /\ quiz = NoQuiz
    /\ questions = NoQuestions
    /\ db = EmptyDb
    /\ nextToken = 1
    /\ resp = Response("none", 0, "")
    /\ lessonsChanged = FALSE
    /\ pre = Digest(EmptyDb)
    /\ req = <<>>

NextLate ==
    \/ enroll
    \/ retrieve
    \/ mark_complete
    \/ create
    \/ perform_create
    \/ quiz_perform_create
    \/ question_perform_create

SpecLate == InitLate /\ [][NextLate]_vars

-----------------------------------------------------------------------------
(* Specification: quiz grading over bounded quizzes and answer lists *)

\* The rows of a student who has just enrolled in a course with the lessons ls.
EnrolledDb(ls) ==
    [EmptyDb EXCEPT !.enrollment = EnrollmentRow(FALSE, NULL),
                    !.progress = [l \in LessonIds |->
                                     IF l \in ls THEN ProgressRow(FALSE, NULL) ELSE NoRow]]

ScorePassingScores == {0, 34, 70, 100}

\* Quizzes of up to two questions worth 0..MaxPoints points each.
ScoreQuestionSets ==
    UNION {[ids -> {QuestionRow(a, p) : a \in {"A", "b"}, p \in 0..MaxPoints}] :
               ids \in SUBSET QuestionIds}

InitScore ==
    /\ lessons = LessonIds
    /\ published = TRUE
    /\ quiz \in {QuizRow(TRUE, ps, 1) : ps \in ScorePassingScores}
    /\ questions \in ScoreQuestionSets
    /\ db = EnrolledDb(lessons)
    /\ nextToken = 1
    /\ resp = Response("none", 0, "")
    /\ lessonsChanged = FALSE
    /\ pre = Digest(EmptyDb)
    /\ req = <<>>

\* QuizAttemptViewSet.create with any answer list of up to MaxAnswers answers
create_any == \E answers \in AnswerLists : Serve(create_result(answers))

NextScore == create_any

SpecScore == InitScore /\ [][NextScore]_vars

-----------------------------------------------------------------------------
(* Specification: one quiz attempt over bounded quizzes and answer lists, the  *)
(* answer list of the request kept in req.                                     *)

\* QuizAttemptViewSet.create with the answer list answers, kept in req
submitted(answers) ==
    LET r == create_result(answers)
    IN  /\ r.db.certs \subseteq Tokens
        /\ db' = r.db
        /\ resp' = r.resp
        /\ pre' = Digest(db)
        /\ nextToken' = TokenAfter(r.db, nextToken)
        /\ req' = <<answers>>
        /\ UNCHANGED Catalog

\* QuizAttemptViewSet.create with any answer list of up to MaxAnswers answers,
\* as the one request of the run
create_submitted ==
    /\ req = <<>>
    /\ \E answers \in AnswerLists : submitted(answers)

NextSubmit == create_submitted

SpecSubmit == InitScore /\ [][NextSubmit]_vars

-----------------------------------------------------------------------------
(* Specification: concurrent quiz attempts of one student at one quiz.  The    *)
(* view runs without a transaction or a row lock, so the statements of         *)
(* different requests interleave: the count of the attempts, the limit test    *)
(* with the grading, the insert of the attempt, the completion of the lesson.  *)

Requests == DOMAIN req

RequestRow(pc, n, answers, pct) == [pc |-> pc, attempts |-> n, answers |-> answers, pct |-> pct]

\* The answer lists of the concurrent requests: nothing right, everything right.
ConcSubmissions == {<<>>, <<Answer(1, "a"), Answer(2, "B")>>}

ConcUnchanged == <<Catalog, nextToken>>

\* views.py 1422-1437: the quiz, the enrollment, and
\* attempts = QuizAttempt.objects.filter(student=..., quiz=quiz).count()
create_count(r) ==
    /\ req[r].pc = "start"
    /\ pre' = Digest(db)
    /\ IF ~(quiz.exists /\ quiz.is_active)
       THEN /\ req' = [req EXCEPT ![r].pc = "done"]
            /\ resp' = Response("create", 404, "NotFound")
       ELSE IF ~db.enrollment.exists
       THEN /\ req' = [req EXCEPT ![r].pc = "done"]
            /\ resp' = Response("create", 403, "PermissionDenied")
       ELSE /\ \E answers \in ConcSubmissions :
                  req' = [req EXCEPT ![r] = RequestRow("counted", attempt_count(db), answers, 0)]
            /\ resp' = resp
    /\ UNCHANGED <<db, ConcUnchanged>>

\* views.py 1439-1486: the limit test on the count taken, then the grading
create_score(r) ==
    /\ req[r].pc = "counted"
    /\ pre' = Digest(db)
    /\ IF req[r].attempts >= max_attempts(quiz)
       THEN /\ req' = [req EXCEPT ![r].pc = "done"]
            /\ resp' = [Response("create", 400, "AttemptsExhausted") EXCEPT
                           !.best_score = IF attempt_count(db) = 0 THEN -1
                                          ELSE best_attempt(db).score,
                           !.passed = IF attempt_count(db) = 0 THEN FALSE
                                      ELSE best_attempt(db).passed]
       ELSE /\ req' = [req EXCEPT ![r].pc = "scored",
                                  ![r].pct = percentage(total_score(questions, req[r].answers),
                                                        max_score(questions))]
            /\ resp' = resp
    /\ UNCHANGED <<db, ConcUnchanged>>

\* views.py 1489-1497: QuizAttempt.objects.create(...)
create_insert(r) ==
    /\ req[r].pc = "scored"
    /\ pre' = Digest(db)
    /\ db' = [db EXCEPT !.attempts =
                  @ (+) SetToBag({AttemptRow(IntegerField(req[r].pct), passed(req[r].pct, quiz))})]
    /\ IF passed(req[r].pct, quiz)
       THEN /\ req' = [req EXCEPT ![r].pc = "inserted"]
            /\ resp' = resp
       ELSE /\ req' = [req EXCEPT ![r].pc = "done"]
            /\ resp' = [Response("create", 201, "") EXCEPT !.score = req[r].pct]
    /\ UNCHANGED ConcUnchanged

\* views.py 1500-1509: the lesson's progress and the course completion
create_complete(r) ==
    /\ req[r].pc = "inserted"
    /\ pre' = Digest(db)
    /\ LET d2 == QuizAttemptViewSet_check_course_completion(
                     update_or_create_completed(db, quiz.lesson), lessons, nextToken)
       IN  /\ d2.certs \subseteq Tokens
           /\ db' = d2
           /\ nextToken' = TokenAfter(d2, nextToken)
    /\ req' = [req EXCEPT ![r].pc = "done"]
    /\ resp' = [Response("create", 201, "") EXCEPT !.score = req[r].pct, !.passed = TRUE]
    /\ UNCHANGED Catalog

InitConc ==
    /\ lessons = {QuizLesson}
    /\ published = TRUE
    /\ quiz \in {QuizRow(TRUE, ps, ma) : ps \in PassingScores, ma \in 1..MaxAttemptsBound}
    /\ questions = TwoQuestions
    /\ db = EnrolledDb(lessons)
    /\ nextToken = 1
    /\ resp = Response("none", 0, "")
    /\ lessonsChanged = FALSE
    /\ pre = Digest(EmptyDb)
    /\ req = [r \in 1..(max_attempts(quiz) + ExtraRequests) |-> RequestRow("start", 0, <<>>, 0)]

NextConc ==
    \/ \E r \in Requests : create_count(r)
    \/ \E r \in Requests : create_score(r)
    \/ \E r \in Requests : create_insert(r)
    \/ \E r \in Requests : create_complete(r)

SpecConc == InitConc /\ [][NextConc]_vars

-----------------------------------------------------------------------------
(* Specification: concurrent enroll requests of one student on one course,     *)
(* with view_lesson and mark_complete requests of the same student in between. *)
(* CourseViewSet.enroll runs without a transaction: the existence test, the    *)
(* insert of the Enrollment and each insert of a LessonProgress row are        *)
(* committed one by one and interleave with the other requests.                *)

EnrollRequests == 2

EnrollRow(pc, todo) == [pc |-> pc, todo |-> todo]

\* Mutant: Enrollment is declared without unique_together, so the insert of a
\* second row for (student, course) succeeds.
Enrollment_objects_create_not_unique(d) ==
    [ok |-> TRUE,
     db |-> [d EXCEPT !.enrollment =
                [EnrollmentRow(FALSE, NULL) EXCEPT !.rows = d.enrollment.rows + 1]]]

\* Enrollment.objects.create(student=..., course=...): unique_together
\* (student, course) makes the insert of a second row fail with IntegrityError.
Enrollment_objects_create(d) ==
    IF d.enrollment.exists
    THEN [ok |-> FALSE, db |-> d]
    ELSE [ok |-> TRUE, db |-> [d EXCEPT !.enrollment = EnrollmentRow(FALSE, NULL)]]

\* LessonProgress.objects.create(student=..., lesson=l, enrollment=...):
\* unique_together (student, lesson) makes the insert of a second row fail.
LessonProgress_objects_create(d, l) ==
    IF d.progress[l].exists
    THEN [ok |-> FALSE, db |-> d]
    ELSE [ok |-> TRUE, db |-> [d EXCEPT !.progress[l] = ProgressRow(FALSE, NULL)]]

\* views.py 247-262: get_object, the test for an existing enrollment, the test
\* of is_published
enroll_check(r) ==
    /\ req[r].pc = "start"
    /\ pre' = Digest(db)
    /\ IF ~CourseVisible
       THEN /\ req' = [req EXCEPT ![r].pc = "done"]
            /\ resp' = Response("enroll", 404, "NotFound")
       ELSE IF db.enrollment.exists
       THEN /\ req' = [req EXCEPT ![r].pc = "done"]
            /\ resp' = Response("enroll", 200, "AlreadyEnrolled")
       ELSE IF ~published
       THEN /\ req' = [req EXCEPT ![r].pc = "done"]
            /\ resp' = Response("enroll", 400, "CourseUnavailable")
       ELSE /\ req' = [req EXCEPT ![r].pc = "create"]
            /\ resp' = resp
    /\ UNCHANGED <<db, ConcUnchanged>>

\* views.py 264-271: Enrollment.objects.create, then lessons = course.lessons.all()
enroll_create(r) ==
    /\ req[r].pc = "create"
    /\ pre' = Digest(db)
    /\ LET c == Enrollment_objects_create(db)
       IN  IF c.ok
           THEN /\ db' = c.db
                /\ req' = [req EXCEPT ![r] = EnrollRow("progress", lessons)]
                /\ resp' = resp
           ELSE /\ db' = db
                /\ req' = [req EXCEPT ![r].pc = "failed"]
                /\ resp' = Response("enroll", 500, "IntegrityError")
    /\ UNCHANGED ConcUnchanged

\* views.py 272-277: one pass of the loop, LessonProgress.objects.create for
\* the next lesson
enroll_progress(r) ==
    /\ req[r].pc = "progress"
    /\ req[r].todo # {}
    /\ pre' = Digest(db)
    /\ LET l == CHOOSE x \in req[r].todo : \A y \in req[r].todo : x <= y
           c == LessonProgress_objects_create(db, l)
       IN  IF c.ok
           THEN /\ db' = c.db
                /\ req' = [req EXCEPT ![r].todo = @ \ {l}]
                /\ resp' = resp
           ELSE /\ db' = db
                /\ req' = [req EXCEPT ![r].pc = "failed"]
                /\ resp' = Response("enroll", 500, "IntegrityError")
    /\ UNCHANGED ConcUnchanged

\* views.py 279-282: the response after the loop
enroll_respond(r) ==
    /\ req[r].pc = "progress"
    /\ req[r].todo = {}
    /\ pre' = Digest(db)
    /\ req' = [req EXCEPT ![r].pc = "done"]
    /\ resp' = Response("enroll", 201, "")
    /\ UNCHANGED <<db, ConcUnchanged>>

InitEnroll ==
    /\ lessons \in {1..n : n \in 0..MaxLessons}
    /\ published = TRUE
    /\ quiz = NoQuiz
    /\ questions = NoQuestions
    /\ db = EmptyDb
    /\ nextToken = 1
    /\ resp = Response("none", 0, "")
    /\ lessonsChanged = FALSE
    /\ pre = Digest(EmptyDb)
    /\ req = [r \in 1..EnrollRequests |-> EnrollRow("start", {})]

NextEnroll ==
    \/ \E r \in Requests : enroll_check(r)
    \/ \E r \in Requests : enroll_create(r)
    \/ \E r \in Requests : enroll_progress(r)
    \/ \E r \in Requests : enroll_respond(r)
    \/ retrieve
    \/ mark_complete

SpecEnroll == InitEnroll /\ [][NextEnroll]_vars

-----------------------------------------------------------------------------
(* Specification: concurrent mark_complete and regenerate requests of one      *)
(* student on one enrollment.  Neither view runs in a transaction or locks a   *)
(* row: the update of the progress row, the completion check, the test for an  *)
(* existing certificate and the insert of the certificate of one request       *)
(* interleave with the statements of the other requests.                       *)

CertRequests == 2

CertRow(pc, l) == [pc |-> pc, lesson |-> l]

\* views.py 415-454: get_object, the enrollment, the quiz gate, update_or_create
mark_complete_update(r) ==
    /\ req[r].pc = "start"
    /\ pre' = Digest(db)
    /\ \E l \in LessonIds :
          IF ~LessonVisible(l)
          THEN /\ req' = [req EXCEPT ![r].pc = "done"]
               /\ resp' = Response("mark_complete", 404, "NotFound")
               /\ db' = db
          ELSE IF quiz_required(l) /\ ~quiz_passed(db)
          THEN /\ req' = [req EXCEPT ![r].pc = "done"]
               /\ resp' = Response("mark_complete", 400, "QuizRequired")
               /\ db' = db
          ELSE /\ req' = [req EXCEPT ![r] = CertRow("check", l)]
               /\ resp' = resp
               /\ db' = update_or_create_completed(db, l)
    /\ UNCHANGED ConcUnchanged

\* views.py 461-474: the two counts and, when they agree, enrollment.save()
check_course_completion(r) ==
    /\ req[r].pc = "check"
    /\ pre' = Digest(db)
    /\ IF total_lessons(lessons) = completed_lessons(db) /\ total_lessons(lessons) > 0
       THEN /\ db' = [db EXCEPT !.enrollment = EnrollmentRow(TRUE, Now)]
            /\ req' = [req EXCEPT ![r].pc = "generate"]
            /\ resp' = resp
       ELSE /\ db' = db
            /\ req' = [req EXCEPT ![r].pc = "done"]
            /\ resp' = Response("mark_complete", 200, "")
    /\ UNCHANGED ConcUnchanged

\* views.py 480: Certificate.objects.filter(enrollment=enrollment).exists()
generate_certificate_exists(r) ==
    /\ req[r].pc = "generate"
    /\ pre' = Digest(db)
    /\ IF db.certs = {}
       THEN /\ req' = [req EXCEPT ![r].pc = "create"]
            /\ resp' = resp
       ELSE /\ req' = [req EXCEPT ![r].pc = "done"]
            /\ resp' = Response("mark_complete", 200, "")
    /\ UNCHANGED <<db, ConcUnchanged>>

\* Mutant: the row is stored whatever certificate_id the table holds.
Certificate_objects_create_not_unique(d, u) ==
    [ok |-> TRUE, db |-> [d EXCEPT !.certs = @ \cup {u}]]

\* Certificate.objects.create(certificate_id=...): certificate_id is unique=True
\* (models.py 139); the row of draw u is stored unless a row has its id
Certificate_objects_create(d, u) ==
    IF \E t \in d.certs : certificate_id_of(t) = certificate_id_of(u)
    THEN [ok |-> FALSE, db |-> d]
    ELSE [ok |-> TRUE, db |-> [d EXCEPT !.certs = @ \cup {u}]]

\* views.py 481-489: the uuid4 draw and Certificate.objects.create
generate_certificate_create(r) ==
    /\ req[r].pc = "create"
    /\ pre' = Digest(db)
    /\ \E u \in Uuids :
          LET ins == Certificate_objects_create(db, u)
          IN  /\ db' = ins.db
              /\ resp' = IF ins.ok THEN Response("mark_complete", 200, "")
                         ELSE Response("mark_complete", 500, "IntegrityError")
    /\ req' = [req EXCEPT ![r].pc = "done"]
    /\ UNCHANGED ConcUnchanged

\* views.py 1701-1718: course_id and the completed enrollment
regenerate_lookup(r) ==
    /\ req[r].pc = "start"
    /\ pre' = Digest(db)
    /\ IF db.enrollment.exists /\ db.enrollment.completed
       THEN /\ req' = [req EXCEPT ![r].pc = "delete"]
            /\ resp' = resp
       ELSE /\ req' = [req EXCEPT ![r].pc = "done"]
            /\ resp' = Response("regenerate", 400, "NotCompleted")
    /\ UNCHANGED <<db, ConcUnchanged>>

\* views.py 1721: Certificate.objects.filter(enrollment=enrollment).delete()
regenerate_delete(r) ==
    /\ req[r].pc = "delete"
    /\ pre' = Digest(db)
    /\ db' = [db EXCEPT !.certs = {}]
    /\ req' = [req EXCEPT ![r].pc = "recreate"]
    /\ resp' = resp
    /\ UNCHANGED ConcUnchanged

\* views.py 1724-1736: the uuid4 draw, Certificate.objects.create, the response
regenerate_create(r) ==
    /\ req[r].pc = "recreate"
    /\ pre' = Digest(db)
    /\ \E u \in Uuids :
          LET ins == Certificate_objects_create(db, u)
          IN  /\ db' = ins.db
              /\ resp' = IF ins.ok THEN Response("regenerate", 201, "")
                         ELSE Response("regenerate", 500, "IntegrityError")
    /\ req' = [req EXCEPT ![r].pc = "done"]
    /\ UNCHANGED ConcUnchanged

InitCert ==
    /\ lessons \in {1..n : n \in 1..MaxLessons}
    /\ published = TRUE
    /\ quiz = NoQuiz
    /\ questions = NoQuestions
    /\ db = EnrolledDb(lessons)
    /\ nextToken = 1
    /\ resp = Response("none", 0, "")
    /\ lessonsChanged = FALSE
    /\ pre = Digest(EmptyDb)
    /\ req = [r \in 1..CertRequests |-> CertRow("start", 0)]

NextCert ==
    \/ \E r \in Requests : mark_complete_update(r)
    \/ \E r \in Requests : check_course_completion(r)
    \/ \E r \in Requests : generate_certificate_exists(r)
    \/ \E r \in Requests : generate_certificate_create(r)
    \/ \E r \in Requests : regenerate_lookup(r)
    \/ \E r \in Requests : regenerate_delete(r)
    \/ \E r \in Requests : regenerate_create(r)

SpecCert == InitCert /\ [][NextCert]_vars

-----------------------------------------------------------------------------
(* Specification: unenroll, statement by statement, interleaved with enroll,   *)
(* the lesson view, mark_complete and the quiz submission of the same student. *)
(* Each request keeps the Enrollment object it fetched or created.  Rows carry *)
(* their primary key and the key of their enrollment; the database checks the  *)
(* foreign key and the unique constraints of every row it inserts, and         *)
(* Django's Model.delete() collects the rows that reference the enrollment     *)
(* (on_delete=CASCADE).                                                        *)

UnenrollRequests == 2

IdleRequest ==
    [pc |-> "start", kind |-> "", eid |-> 0, lesson |-> 0, found |-> NoRow,
     todo |-> {}, pct |-> 0, out |-> ""]

IntegrityError == "IntegrityError"

Finished(r, out) == [req EXCEPT ![r].pc = "done", ![r].out = out]

\* The primary key of the Enrollment that was there at the start, and of the
\* one request r creates: keys are never given twice.
FirstEnrollmentId == 1
Enrollment_id(r) == FirstEnrollmentId + r

\* models.py 65-76: an Enrollment row with its primary key
Enrollment_row(id, c, at) == ("id" :> id) @@ EnrollmentRow(c, at)

\* models.py 78-90: a LessonProgress row with its primary key (the request that
\* created it, 0 at the start) and its enrollment
LessonProgress_row(pk, eid, c, at) == ("pk" :> pk) @@ ("eid" :> eid) @@ ProgressRow(c, at)

\* models.py 123-133: a QuizAttempt row with its enrollment
QuizAttempt_row(eid, s, p) == ("eid" :> eid) @@ AttemptRow(s, p)

\* models.py 135-144: a Certificate row with its enrollment
Certificate_row(eid, tok) == [id |-> uuid4(tok), eid |-> eid]

\* models.py 81, 126, 138: enrollment = models.ForeignKey(Enrollment, ...);
\* an inserted row must reference an Enrollment that exists
ForeignKey(d, eid) == IF d.enrollment.exists THEN d.enrollment.id = eid ELSE FALSE

\* LessonProgress.objects.filter(lesson=l, enrollment=eid)
progress_of(d, l, eid) == IF d.progress[l].exists THEN d.progress[l].eid = eid ELSE FALSE

\* LessonProgress.objects.filter(enrollment=eid, completed=True).count()
completed_lessons_of(d, eid) ==
    Cardinality({l \in LessonIds : progress_of(d, l, eid) /\ d.progress[l].completed})

\* Enrollment INSERT: unique_together (student, course)
Enrollment_insert(d, id, c, at) ==
    IF d.enrollment.exists
    THEN [ok |-> FALSE, db |-> d]
    ELSE [ok |-> TRUE, db |-> [d EXCEPT !.enrollment = Enrollment_row(id, c, at)]]

\* LessonProgress INSERT: the foreign key and unique_together (student, lesson)
LessonProgress_insert(d, l, row) ==
    IF ForeignKey(d, row.eid) /\ ~d.progress[l].exists
    THEN [ok |-> TRUE, db |-> [d EXCEPT !.progress[l] = row]]
    ELSE [ok |-> FALSE, db |-> d]

\* QuizAttempt INSERT
QuizAttempt_insert(d, row) ==
    IF ForeignKey(d, row.eid)
    THEN [ok |-> TRUE, db |-> [d EXCEPT !.attempts = @ (+) SetToBag({row})]]
    ELSE [ok |-> FALSE, db |-> d]

\* Certificate INSERT
Certificate_insert(d, row) ==
    IF ForeignKey(d, row.eid)
    THEN [ok |-> TRUE, db |-> [d EXCEPT !.certs = @ \cup {row}]]
    ELSE [ok |-> FALSE, db |-> d]

\* LessonProgress.objects.filter(enrollment=eid).delete()
LessonProgress_delete(d, eid) ==
    [d EXCEPT !.progress = [l \in LessonIds |->
                               IF progress_of(d, l, eid) THEN NoRow ELSE d.progress[l]]]

\* QuizAttempt.objects.filter(enrollment=eid).delete()
QuizAttempt_delete(d, eid) ==
    LET kept == {a \in BagToSet(d.attempts) : a.eid # eid}
    IN  [d EXCEPT !.attempts = [a \in kept |-> d.attempts[a]]]

\* Certificate.objects.filter(enrollment=eid).delete()
Certificate_delete(d, eid) == [d EXCEPT !.certs = {c \in @ : c.eid # eid}]

\* Mutant: the Enrollment row is deleted alone.
Enrollment_delete_without_cascade(d, eid) ==
    IF ForeignKey(d, eid) THEN [d EXCEPT !.enrollment = NoRow] ELSE d

\* enrollment.delete(): the rows referencing it (on_delete=CASCADE) and the row
Enrollment_delete(d, eid) ==
    IF ForeignKey(d, eid)
    THEN [Certificate_delete(QuizAttempt_delete(LessonProgress_delete(d, eid), eid), eid)
             EXCEPT !.enrollment = NoRow]
    ELSE d

\* enrollment.save() on a fetched object: UPDATE by primary key; INSERT when no
\* row was updated
Enrollment_save(d, eid, c, at) ==
    IF ForeignKey(d, eid)
    THEN [ok |-> TRUE, db |-> [d EXCEPT !.enrollment = Enrollment_row(eid, c, at)]]
    ELSE Enrollment_insert(d, eid, c, at)

\* views.py 287-293: the course and Enrollment.objects.get
unenroll_get(r) ==
    /\ req[r].pc = "start"
    /\ pre' = Digest(db)
    /\ IF ~CourseVisible THEN req' = Finished(r, "NotFound")
       ELSE IF ~db.enrollment.exists THEN req' = Finished(r, "NotEnrolled")
       ELSE req' = [req EXCEPT ![r].pc = "progress", ![r].kind = "unenroll",
                               ![r].eid = db.enrollment.id]
    /\ UNCHANGED <<db, resp, ConcUnchanged>>

\* views.py 296: LessonProgress.objects.filter(enrollment=enrollment).delete()
unenroll_progress(r) ==
    /\ req[r].pc = "progress"
    /\ pre' = Digest(db)
    /\ db' = LessonProgress_delete(db, req[r].eid)
    /\ req' = [req EXCEPT ![r].pc = "attempts"]
    /\ UNCHANGED <<resp, ConcUnchanged>>

\* views.py 297: QuizAttempt.objects.filter(enrollment=enrollment).delete()
unenroll_attempts(r) ==
    /\ req[r].pc = "attempts"
    /\ pre' = Digest(db)
    /\ db' = QuizAttempt_delete(db, req[r].eid)
    /\ req' = [req EXCEPT ![r].pc = "certificates"]
    /\ UNCHANGED <<resp, ConcUnchanged>>

\* views.py 298: Certificate.objects.filter(enrollment=enrollment).delete()
unenroll_certificates(r) ==
    /\ req[r].pc = "certificates"
    /\ pre' = Digest(db)
    /\ db' = Certificate_delete(db, req[r].eid)
    /\ req' = [req EXCEPT ![r].pc = "enrollment"]
    /\ UNCHANGED <<resp, ConcUnchanged>>

\* views.py 300-304: enrollment.delete() and the response
unenroll_enrollment(r) ==
    /\ req[r].pc = "enrollment"
    /\ pre' = Digest(db)
    /\ db' = Enrollment_delete(db, req[r].eid)
    /\ req' = Finished(r, "")
    /\ resp' = Response("unenroll", 200, "")
    /\ UNCHANGED ConcUnchanged

\* views.py 245-262: the course, the test for an enrollment, is_published
enroll_get(r) ==
    /\ req[r].pc = "start"
    /\ pre' = Digest(db)
    /\ IF ~CourseVisible THEN req' = Finished(r, "NotFound")
       ELSE IF db.enrollment.exists THEN req' = Finished(r, "AlreadyEnrolled")
       ELSE req' = [req EXCEPT ![r].pc = "enroll", ![r].kind = "enroll"]
    /\ UNCHANGED <<db, resp, ConcUnchanged>>

\* views.py 265-271: Enrollment.objects.create and course.lessons.all()
enroll_insert(r) ==
    /\ req[r].pc = "enroll"
    /\ pre' = Digest(db)
    /\ LET ins == Enrollment_insert(db, Enrollment_id(r), FALSE, NULL)
       IN  /\ db' = ins.db
           /\ req' = IF ins.ok
                     THEN [req EXCEPT ![r].pc = "lessons", ![r].eid = Enrollment_id(r),
                                      ![r].todo = lessons]
                     ELSE Finished(r, IntegrityError)
    /\ UNCHANGED <<resp, ConcUnchanged>>

\* views.py 272-282: one LessonProgress.objects.create of the loop, in the
\* order of the lessons; the response after the last
enroll_lesson(r) ==
    /\ req[r].pc = "lessons"
    /\ pre' = Digest(db)
    /\ IF req[r].todo = {}
       THEN db' = db /\ req' = Finished(r, "")
       ELSE LET l == CHOOSE k \in req[r].todo : \A j \in req[r].todo : k <= j
                ins == LessonProgress_insert(
                           db, l, LessonProgress_row(r, req[r].eid, FALSE, NULL))
            IN  /\ db' = ins.db
                /\ req' = IF ins.ok THEN [req EXCEPT ![r].todo = @ \ {l}]
                          ELSE Finished(r, IntegrityError)
    /\ UNCHANGED <<resp, ConcUnchanged>>

\* views.py 336-359: the lesson, the enrollment, the progress row
retrieve_lookup(r) ==
    /\ req[r].pc = "start"
    /\ pre' = Digest(db)
    /\ \E l \in lessons :
          IF ~LessonVisible(l) THEN req' = Finished(r, "NotFound")
          ELSE req' = [req EXCEPT ![r].pc = "save", ![r].kind = "retrieve",
                                  ![r].eid = db.enrollment.id, ![r].lesson = l,
                                  ![r].found = IF progress_of(db, l, db.enrollment.id)
                                               THEN db.progress[l] ELSE NoRow]
    /\ UNCHANGED <<db, resp, ConcUnchanged>>

\* views.py 366-375: progress.save() writes the fields of the fetched object
\* (UPDATE by primary key, INSERT when no row was updated), or
\* LessonProgress.objects.create
retrieve_save(r) ==
    /\ req[r].pc = "save"
    /\ pre' = Digest(db)
    /\ LET l == req[r].lesson
           row == req[r].found
           ins == IF row.exists
                  THEN LessonProgress_insert(db, l, row)
                  ELSE LessonProgress_insert(
                           db, l, LessonProgress_row(r, req[r].eid, FALSE, NULL))
           same == IF row.exists /\ db.progress[l].exists
                   THEN db.progress[l].pk = row.pk /\ db.progress[l].eid = row.eid
                   ELSE FALSE
       IN  IF same
           THEN db' = [db EXCEPT !.progress[l] = row] /\ req' = Finished(r, "")
           ELSE db' = ins.db /\ req' = Finished(r, IF ins.ok THEN "" ELSE IntegrityError)
    /\ UNCHANGED <<resp, ConcUnchanged>>

\* views.py 418-442: the lesson, the enrollment, the quiz gate
mark_complete_lookup(r) ==
    /\ req[r].pc = "start"
    /\ pre' = Digest(db)
    /\ \E l \in lessons :
          IF ~LessonVisible(l) THEN req' = Finished(r, "NotFound")
          ELSE IF quiz_required(l) /\ ~quiz_passed(db) THEN req' = Finished(r, "QuizRequired")
          ELSE req' = [req EXCEPT ![r].pc = "update", ![r].kind = "mark_complete",
                                  ![r].eid = db.enrollment.id, ![r].lesson = l]
    /\ UNCHANGED <<db, resp, ConcUnchanged>>

\* views.py 1422-1486: the quiz, the enrollment, the attempt limit, the grading
create_lookup(r) ==
    /\ req[r].pc = "start"
    /\ pre' = Digest(db)
    /\ IF ~(quiz.exists /\ quiz.is_active) THEN req' = Finished(r, "NotFound")
       ELSE IF ~db.enrollment.exists THEN req' = Finished(r, "PermissionDenied")
       ELSE IF attempt_count(db) >= max_attempts(quiz)
       THEN req' = Finished(r, "AttemptsExhausted")
       ELSE \E answers \in ConcSubmissions :
               req' = [req EXCEPT ![r].pc = "insert", ![r].kind = "create",
                                  ![r].eid = db.enrollment.id, ![r].lesson = quiz.lesson,
                                  ![r].pct = percentage(total_score(questions, answers),
                                                        max_score(questions))]
    /\ UNCHANGED <<db, resp, ConcUnchanged>>

\* views.py 1489-1497: QuizAttempt.objects.create(..., enrollment=enrollment)
create_attempt(r) ==
    /\ req[r].pc = "insert"
    /\ pre' = Digest(db)
    /\ LET ins == QuizAttempt_insert(
                      db, QuizAttempt_row(req[r].eid, IntegerField(req[r].pct),
                                          passed(req[r].pct, quiz)))
       IN  /\ db' = ins.db
           /\ req' = IF ~ins.ok THEN Finished(r, IntegrityError)
                     ELSE IF passed(req[r].pct, quiz) THEN [req EXCEPT ![r].pc = "update"]
                     ELSE Finished(r, "")
    /\ UNCHANGED <<resp, ConcUnchanged>>

\* views.py 445-454 and 1500-1506: LessonProgress.objects.update_or_create on
\* (student, lesson, enrollment)
progress_update_or_create(r) ==
    /\ req[r].pc = "update"
    /\ pre' = Digest(db)
    /\ LET l == req[r].lesson
           ins == LessonProgress_insert(db, l, LessonProgress_row(r, req[r].eid, TRUE, Now))
       IN  IF progress_of(db, l, req[r].eid)
           THEN /\ db' = [db EXCEPT !.progress[l].completed = TRUE,
                                    !.progress[l].completed_at = Now]
                /\ req' = [req EXCEPT ![r].pc = "check"]
           ELSE /\ db' = ins.db
                /\ req' = IF ins.ok THEN [req EXCEPT ![r].pc = "check"]
                          ELSE Finished(r, IntegrityError)
    /\ UNCHANGED <<resp, ConcUnchanged>>

\* views.py 461-474 and 1523-1536: the counts and enrollment.save()
completion_save(r) ==
    /\ req[r].pc = "check"
    /\ pre' = Digest(db)
    /\ IF total_lessons(lessons) = completed_lessons_of(db, req[r].eid)
          /\ total_lessons(lessons) > 0
       THEN LET sav == Enrollment_save(db, req[r].eid, TRUE, Now)
            IN  /\ db' = sav.db
                /\ req' = IF sav.ok THEN [req EXCEPT ![r].pc = "generate"]
                          ELSE Finished(r, IntegrityError)
       ELSE /\ db' = db
            /\ req' = Finished(r, "")
    /\ UNCHANGED <<resp, ConcUnchanged>>

\* views.py 478-489 and 1540-1551: _generate_certificate
completion_certificate(r) ==
    /\ req[r].pc = "generate"
    /\ pre' = Digest(db)
    /\ IF \E c \in db.certs : c.eid = req[r].eid
       THEN /\ req' = Finished(r, "")
            /\ UNCHANGED <<db, nextToken>>
       ELSE /\ nextToken \in Tokens
            /\ LET ins == Certificate_insert(db, Certificate_row(req[r].eid, nextToken))
               IN  /\ db' = ins.db
                   /\ nextToken' = IF ins.ok THEN nextToken + 1 ELSE nextToken
                   /\ req' = Finished(r, IF ins.ok THEN "" ELSE IntegrityError)
    /\ UNCHANGED <<resp, Catalog>>

\* The student enrolled as a whole (one row per lesson), or not enrolled.
InitUnenroll ==
    /\ lessons \in {1..n : n \in 1..MaxLessons}
    /\ published = TRUE
    /\ quiz \in {QuizRow(TRUE, ps, MaxAttemptsBound) : ps \in PassingScores}
    /\ questions = TwoQuestions
    /\ db \in {EmptyDb,
               [EmptyDb EXCEPT
                   !.enrollment = Enrollment_row(FirstEnrollmentId, FALSE, NULL),
                   !.progress = [l \in LessonIds |->
                                    IF l \in lessons
                                    THEN LessonProgress_row(0, FirstEnrollmentId, FALSE, NULL)
                                    ELSE NoRow]]}
    /\ nextToken = 1
    /\ resp = Response("none", 0, "")
    /\ lessonsChanged = FALSE
    /\ pre = Digest(EmptyDb)
    /\ req = [r \in 1..UnenrollRequests |-> IdleRequest]

NextUnenroll ==
    \/ \E r \in Requests : unenroll_get(r)
    \/ \E r \in Requests : unenroll_progress(r)
    \/ \E r \in Requests : unenroll_attempts(r)
    \/ \E r \in Requests : unenroll_certificates(r)
    \/ \E r \in Requests : unenroll_enrollment(r)
    \/ \E r \in Requests : enroll_get(r)
    \/ \E r \in Requests : enroll_insert(r)
    \/ \E r \in Requests : enroll_lesson(r)
    \/ \E r \in Requests : retrieve_lookup(r)
    \/ \E r \in Requests : retrieve_save(r)
    \/ \E r \in Requests : mark_complete_lookup(r)
    \/ \E r \in Requests : create_lookup(r)
    \/ \E r \in Requests : create_attempt(r)
    \/ \E r \in Requests : progress_update_or_create(r)
    \/ \E r \in Requests : completion_save(r)
    \/ \E r \in Requests : completion_certificate(r)

SpecUnenroll == InitUnenroll /\ [][NextUnenroll]_vars

-----------------------------------------------------------------------------
(* Specification: update and delete requests on the course by its instructor,  *)
(* by another instructor and by a student, between the student's requests.     *)
(* req holds the last course request.                                          *)

Actors == {"owner", "instructor", "student"}

CourseRequest(actor, method, status, deleted) ==
    [actor |-> actor, method |-> method, status |-> status, deleted |-> deleted]

\* The course row exists until a DELETE succeeded.
Course_exists == IF req = <<>> THEN TRUE ELSE ~req[1].deleted

\* CourseViewSet.get_queryset: an instructor's own courses, a student's
\* published courses
CourseViewSet_get_queryset(actor) ==
    IF actor = "owner" THEN TRUE
    ELSE IF actor = "instructor" THEN FALSE
    ELSE published

\* CourseViewSet.permission_classes = [IsAuthenticated], for every action and
\* method (IsCourseInstructorOrReadOnly is in no permission_classes)
CourseViewSet_permission_classes(actor) == actor \in Actors

\* CourseViewSet.partial_update (ModelViewSet) of is_published
CourseViewSet_partial_update(actor, value) ==
    /\ Course_exists
    /\ pre' = Digest(db)
    /\ IF CourseViewSet_permission_classes(actor) /\ CourseViewSet_get_queryset(actor)
       THEN /\ published' = value
            /\ req' = <<CourseRequest(actor, "PATCH", 200, FALSE)>>
            /\ resp' = Response("partial_update", 200, "")
       ELSE /\ published' = published
            /\ req' = <<CourseRequest(actor, "PATCH", 404, FALSE)>>
            /\ resp' = Response("partial_update", 404, "NotFound")
    /\ UNCHANGED <<lessons, quiz, questions, db, nextToken, lessonsChanged>>

\* CourseViewSet.destroy (ModelViewSet): the course with its lessons, quiz,
\* questions, enrollments and their rows (on_delete=CASCADE)
CourseViewSet_destroy(actor) ==
    /\ Course_exists
    /\ pre' = Digest(db)
    /\ IF CourseViewSet_permission_classes(actor) /\ CourseViewSet_get_queryset(actor)
       THEN /\ lessons' = {}
            /\ quiz' = NoQuiz
            /\ questions' = NoQuestions
            /\ db' = EmptyDb
            /\ published' = FALSE
            /\ req' = <<CourseRequest(actor, "DELETE", 204, TRUE)>>
            /\ resp' = Response("destroy", 204, "")
       ELSE /\ UNCHANGED <<lessons, quiz, questions, db, published>>
            /\ req' = <<CourseRequest(actor, "DELETE", 404, FALSE)>>
            /\ resp' = Response("destroy", 404, "NotFound")
    /\ UNCHANGED <<nextToken, lessonsChanged>>

course_partial_update == \E actor \in Actors, value \in BOOLEAN : CourseViewSet_partial_update(actor, value)

course_destroy == \E actor \in Actors : CourseViewSet_destroy(actor)

NextCourse ==
    \/ course_partial_update
    \/ course_destroy
    \/ Course_exists /\ enroll
    \/ Course_exists /\ mark_complete
    \/ Course_exists /\ unenroll

SpecCourse == Init /\ [][NextCourse]_vars

-----------------------------------------------------------------------------
(* Claims *)

\* C1: on a course whose lesson set does not change (N lessons), after any
\* sequence of requests Enrollment.completed is true if and only if N > 0 and
\* exactly N LessonProgress rows of the enrollment are completed; it is never
\* true for N = 0.
C1_CompletedIffAllLessons ==
    ~lessonsChanged =>
        (db.enrollment.completed <=>
            (total_lessons(lessons) > 0
             /\ completed_lessons(db) = total_lessons(lessons)))

\* The last request completed the last lesson of a course of MaxLessons lessons.
C1_Witness ==
    /\ ~lessonsChanged
    /\ total_lessons(lessons) = MaxLessons
    /\ ~pre.completed
    /\ db.enrollment.completed
    /\ completed_lessons(db) = MaxLessons

\* A course of N > 0 lessons without a quiz, whose lesson set did not change.
NoQuizCourse == ~quiz.exists /\ ~lessonsChanged /\ total_lessons(lessons) > 0

C2_Before ==
    (NoQuizCourse /\ db.enrollment.exists
     /\ completed_lessons(db) < total_lessons(lessons))
        => (~db.enrollment.completed /\ db.certs = {})

C2_Last ==
    \A l \in LessonIds :
        (/\ resp'.op = "mark_complete"
         /\ NoQuizCourse
         /\ LessonVisible(l)
         /\ ~db.progress[l].completed
         /\ completed_lessons(db) = total_lessons(lessons) - 1
         /\ Serve(mark_complete_result(l)))
            => (db'.enrollment.completed /\ Cardinality(db'.certs) = 1)

\* C2: on a course of N > 0 lessons without quizzes, while fewer than N lessons
\* are complete the enrollment is not completed and has no certificate; the
\* mark_complete request that completes the last remaining lesson sets
\* Enrollment.completed and leaves exactly one Certificate.
C2_LastLessonCompletesCourse == [](C2_Before) /\ [][C2_Last]_vars

\* mark_complete has just completed the last of MaxLessons lessons.
C2_Witness ==
    /\ NoQuizCourse
    /\ total_lessons(lessons) = MaxLessons
    /\ resp.op = "mark_complete" /\ resp.status = 200
    /\ pre.done = MaxLessons - 1 /\ ~pre.completed /\ pre.certs = {}
    /\ db.enrollment.completed
    /\ Cardinality(db.certs) = 1

C3_Reset ==
    \A l \in LessonIds :
        (/\ resp'.op = "reset"
         /\ db.enrollment.completed
         /\ l \in lessons
         /\ db.progress[l].exists
         /\ Serve(reset_result(l)))
            => (/\ db'.progress[l] = ProgressRow(FALSE, NULL)
                /\ db'.enrollment = EnrollmentRow(FALSE, NULL)
                /\ db'.certs = {})

\* C3: reset on a lesson of a completed enrollment sets that LessonProgress row
\* to completed=false, sets Enrollment.completed=false with completed_at
\* cleared, and deletes the Certificate: afterwards the enrollment has none.
C3_ResetRevokes == [][C3_Reset]_vars

\* A reset has just reopened a completed enrollment that held a certificate.
C3_Witness ==
    /\ resp.op = "reset" /\ resp.status = 200
    /\ pre.completed /\ pre.certs # {}
    /\ db.enrollment = EnrollmentRow(FALSE, NULL)
    /\ db.certs = {}

\* C4: after any sequence of requests, each executed as a whole, the enrollment
\* has at most one Certificate, and it has one if and only if
\* Enrollment.completed is true.
C4_CertificateIffCompleted ==
    /\ Cardinality(db.certs) <= 1
    /\ db.certs # {} <=> (db.enrollment.exists /\ db.enrollment.completed)

\* A regenerate has just replaced the certificate of a completed enrollment.
C4_Witness ==
    /\ resp.op = "regenerate" /\ resp.status = 201
    /\ pre.certs # {}
    /\ db.enrollment.completed
    /\ Cardinality(db.certs) = 1

C5_Reissue ==
    (/\ resp'.op \in {"mark_complete", "create"}
     /\ db.certs # {}
     /\ \/ \E l \in LessonIds : Serve(mark_complete_result(l))
        \/ \E answers \in Submissions : Serve(create_result(answers)))
        => db'.certs = db.certs

\* C5: issuance is idempotent: when the enrollment has a Certificate, a further
\* mark_complete or a further passing quiz attempt creates no Certificate and
\* leaves the existing certificate_id unchanged.
C5_IssueIdempotent == [][C5_Reissue]_vars

\* A passing attempt was stored on an enrollment that already held its certificate.
C5_Witness ==
    /\ resp.op = "create" /\ resp.status = 201 /\ resp.passed
    /\ pre.completed /\ pre.certs # {}
    /\ db.certs = pre.certs

C6_Regenerate ==
    (resp'.op = "regenerate" /\ db.enrollment.completed /\ Serve(regenerate_result(CourseId)))
        => (/\ Cardinality(db'.certs) = 1
            /\ db'.certs \cap db.certs = {}
            /\ \A t \in db'.certs : t >= nextToken
            /\ \A old \in db.certs : (verify_result(old).resp.status)' = 404)

C7_Regenerate ==
    \A c \in {CourseId, OtherCourseId} :
        (/\ resp'.op = "regenerate"
         /\ ~(c = CourseId /\ db.enrollment.exists /\ db.enrollment.completed)
         /\ Serve(regenerate_result(c)))
            => (/\ resp'.status = 400 /\ resp'.error = "NotCompleted"
                /\ db' = db
                /\ UNCHANGED <<Catalog, nextToken>>)

\* C7: regenerate for a course in which the student has no Enrollment, or whose
\* Enrollment has completed=false, fails with NotCompleted and creates or
\* deletes no Certificate and changes no other row.
C7_RegenerateNotCompleted == [][C7_Regenerate]_vars

\* A regenerate on an enrollment that is not completed was just refused.
C7_Witness ==
    /\ resp.op = "regenerate" /\ resp.error = "NotCompleted"
    /\ db.enrollment.exists /\ ~db.enrollment.completed
    /\ pre.done > 0

\* C8: when max_attempts + k attempts (k >= 1) are submitted concurrently for
\* the same student and quiz, their count, grading and insert steps
\* interleaving, the number of stored QuizAttempt rows never exceeds
\* quiz.max_attempts.
C8_AttemptsWithinLimit == attempt_count(db) <= max_attempts(quiz)

C9_Exhausted ==
    (/\ resp'.op = "create"
     /\ quiz.exists
     /\ attempt_count(db) = max_attempts(quiz)
     /\ \E answers \in Submissions : Serve(create_result(answers)))
            => (/\ resp'.status = 400 /\ resp'.error = "AttemptsExhausted"
                /\ resp'.score = -1
                /\ \E a \in BagToSet(db.attempts) :
                      /\ resp'.best_score = a.score
                      /\ \A b \in BagToSet(db.attempts) : b.score <= a.score
                /\ db' = db
                /\ UNCHANGED <<Catalog, nextToken>>)

\* C9: in sequential execution, once the student has max_attempts QuizAttempt
\* rows for the quiz, every further attempt is refused with AttemptsExhausted
\* and the best prior score, without a score of its own, and creates no
\* QuizAttempt and changes no LessonProgress, Enrollment or Certificate.
C9_AttemptsExhausted == [][C9_Exhausted]_vars

\* A third attempt at a quiz of two attempts was refused with the best score, 75.
C9_Witness ==
    /\ resp.op = "create" /\ resp.error = "AttemptsExhausted"
    /\ quiz.max_attempts = 2
    /\ pre.attempts = 2 /\ attempt_count(db) = 2
    /\ resp.best_score = 7500
    /\ \E a \in BagToSet(db.attempts) : a.score < 7500

C10_Stored ==
    \A answers \in AnswerLists :
        (/\ db.enrollment.exists
         /\ attempt_count(db) < max_attempts(quiz)
         /\ Serve(create_result(answers)))
            => LET raw == total_score(questions, answers)
                   max == max_score(questions)
                   score == IF max > 0 THEN RoundHalfEven(raw * 10000, max) ELSE 0
               IN  db'.attempts =
                       db.attempts (+)
                       SetToBag({AttemptRow(score, score >= quiz.passing_score * 100)})

\* C10: for every quiz and answer list the stored attempt has
\* score = round(raw / max_score * 100, 2) when max_score > 0 and 0 otherwise,
\* and passed = (score >= quiz.passing_score); scores are in hundredths here.
C10_StoredScoreIsPercentage == [][C10_Stored]_vars

\* The answer lists that are permutations of the list s.
Perms(s) ==
    {[i \in 1..Len(s) |-> s[f[i]]] :
        f \in {g \in [1..Len(s) -> 1..Len(s)] :
                  \A i, j \in 1..Len(s) : i # j => g[i] # g[j]}}

C11_Permuted ==
    (req = <<>> /\ req' # <<>> /\ submitted(req'[1]))
        => \A p \in Perms(req'[1]) :
              /\ create_result(p).resp.score = resp'.score
              /\ create_result(p).resp.passed = resp'.passed
              /\ create_result(p).db.attempts = db'.attempts

\* C11: quiz scoring is independent of answer order: for every quiz and every
\* answer list, the attempt graded from any permutation of the list has the
\* same score and the same passed value, in the response and in the stored row.
C11_ScoreOrderIndependent == [][C11_Permuted]_vars

\* An attempt of MaxAnswers answers was graded 100: it answered both questions
\* of a quiz whose questions differ in points.
C11_Witness ==
    /\ resp.op = "create" /\ resp.status = 201
    /\ Len(req) = 1 /\ Len(req[1]) = MaxAnswers
    /\ DOMAIN questions = QuestionIds
    /\ \A q \in QuestionIds : questions[q].points > 0
    /\ questions[1].points # questions[2].points
    /\ resp.score = 10000

\* C12: every stored QuizAttempt.score is a percentage in 0..100 (0..10000 in
\* hundredths), for every answer list, also one that names a question more
\* than once or names questions that are not in the quiz.
C12_ScoreInRange ==
    \A a \in BagToSet(db.attempts) : a.score >= 0 /\ a.score <= 10000


C13_Passing ==
    \A answers \in Submissions :
        (/\ Serve(create_result(answers))
         /\ resp'.status = 201
         /\ resp'.passed)
            => (/\ db'.progress[quiz.lesson] = ProgressRow(TRUE, Now)
                /\ (\A l \in lessons \ {quiz.lesson} :
                       db.progress[l].exists /\ db.progress[l].completed)
                      => (/\ db'.enrollment.exists /\ db'.enrollment.completed
                          /\ Cardinality(db'.certs) = 1))

\* C13: a quiz attempt that passes leaves the LessonProgress row of the quiz's
\* lesson completed, creating the row when the enrollment had none, and when
\* every other lesson of the course was complete the same request sets
\* Enrollment.completed and leaves the enrollment with one Certificate.
C13_PassCompletesLesson == [][C13_Passing]_vars

\* A passing attempt created the missing row of the quiz's lesson, which was
\* the last incomplete lesson of the course: the course is completed.
C13_Witness ==
    /\ resp.op = "create" /\ resp.status = 201 /\ resp.passed
    /\ total_lessons(lessons) = MaxLessons
    /\ pre.rows = MaxLessons - 1 /\ pre.done = MaxLessons - 1 /\ ~pre.completed
    /\ db.progress[QuizLesson] = ProgressRow(TRUE, Now)
    /\ db.enrollment.completed
    /\ Cardinality(db.certs) = 1

\* The lesson l has an active quiz with at least one question, and the student
\* holds no passing attempt for it.
C14_Gated(l) ==
    /\ quiz.exists /\ quiz.lesson = l /\ quiz.is_active
    /\ Cardinality(DOMAIN questions) >= 1
    /\ \A a \in BagToSet(db.attempts) : ~a.passed

C14_Mark ==
    \A l \in LessonIds :
        (/\ resp'.op = "mark_complete"
         /\ l \in lessons
         /\ db.enrollment.exists
         /\ Serve(mark_complete_result(l)))
            => IF C14_Gated(l)
               THEN /\ resp'.status = 400 /\ resp'.error = "QuizRequired"
                    /\ db' = db
                    /\ UNCHANGED <<Catalog, nextToken>>
               ELSE /\ resp'.status = 200
                    /\ db'.progress[l] = ProgressRow(TRUE, Now)

\* C14: mark_complete by the enrolled student on a lesson with an active quiz
\* of at least one question, without a passing attempt, fails with QuizRequired
\* and changes no row; on a lesson with no quiz, an inactive quiz or a quiz
\* without questions, or with a passing attempt held, it leaves the lesson's
\* LessonProgress completed.
C14_QuizGate == [][C14_Mark]_vars

\* The quiz's lesson, reset after the quiz was passed, was completed directly.
C14_Witness ==
    /\ resp.op = "mark_complete" /\ resp.status = 200
    /\ lessons = {QuizLesson}
    /\ quiz.exists /\ quiz.is_active /\ DOMAIN questions # {}
    /\ \E a \in BagToSet(db.attempts) : a.passed
    /\ pre.done = 0
    /\ db.progress[QuizLesson] = ProgressRow(TRUE, Now)

C15_Enroll ==
    (/\ resp'.op = "enroll"
     /\ published
     /\ ~db.enrollment.exists
     /\ Serve(enroll_result))
        => (/\ resp'.status = 201
            /\ db'.enrollment = EnrollmentRow(FALSE, NULL)
            /\ db'.enrollment.rows = 1
            /\ \A l \in LessonIds :
                  db'.progress[l] = IF l \in lessons THEN ProgressRow(FALSE, NULL) ELSE NoRow
            /\ db'.attempts = EmptyBag
            /\ db'.certs = {})

\* C15: a successful enroll on a published course without a prior enrollment
\* creates one Enrollment with completed=false and one LessonProgress row with
\* completed=false for each lesson the course has at that moment and for no
\* other lesson, and leaves the student without QuizAttempt and Certificate.
C15_EnrollCreatesRows == [][C15_Enroll]_vars

\* The student has just enrolled in a course of MaxLessons lessons.
C15_Witness ==
    /\ resp.op = "enroll" /\ resp.status = 201
    /\ ~pre.enrolled /\ pre.rows = 0
    /\ total_lessons(lessons) = MaxLessons
    /\ db.enrollment = EnrollmentRow(FALSE, NULL)
    /\ \A l \in lessons : db.progress[l] = ProgressRow(FALSE, NULL)

\* C16: enroll is atomic: under every interleaving with a concurrent enroll,
\* view_lesson or mark_complete of the same student, and when an insert fails,
\* no state has the Enrollment with LessonProgress rows for only some of the
\* course's lessons: the Enrollment and all its rows exist, or none do.
C16_EnrollAtomic ==
    /\ db.enrollment.exists => \A l \in lessons : db.progress[l].exists
    /\ ~db.enrollment.exists => \A l \in LessonIds : ~db.progress[l].exists

C17_Already ==
    \A r \in Requests :
        (db.enrollment.exists /\ enroll_check(r))
            => (/\ resp'.status = 200 /\ resp'.error = "AlreadyEnrolled"
                /\ req'[r].pc = "done"
                /\ db' = db
                /\ UNCHANGED <<Catalog, nextToken>>)

C18_Unpublished ==
    (/\ ~published
     /\ ~db.enrollment.exists
     /\ Serve(enroll_result))
        => (/\ resp'.status = 400 /\ resp'.error = "CourseUnavailable"
            /\ db' = db)

\* C18: enroll by a student without enrollment on a course whose is_published
\* is false fails with CourseUnavailable and creates no Enrollment and no
\* LessonProgress row.
C18_UnpublishedRefused == [][C18_Unpublished]_vars

C19_Unenroll ==
    (resp'.op = "unenroll" /\ resp'.status = 200 /\ Serve(unenroll_result))
        => (/\ db.enrollment.exists
            /\ ~db'.enrollment.exists
            /\ \A l \in LessonIds : ~db'.progress[l].exists
            /\ attempt_count(db') = 0
            /\ db'.certs = {})

C19_Reenroll ==
    (resp'.op = "enroll" /\ resp'.status = 201 /\ Serve(enroll_result))
        => (/\ \A l \in LessonIds : ~db'.progress[l].completed
            /\ attempt_count(db') = 0
            /\ db'.enrollment.exists /\ ~db'.enrollment.completed
            /\ db'.certs = {})

\* C19: a successful unenroll removes every LessonProgress, QuizAttempt and
\* Certificate of the enrollment and the Enrollment itself, and an enroll that
\* succeeds afterwards starts without history: no LessonProgress completed, no
\* QuizAttempt counted against max_attempts, Enrollment.completed false, no
\* Certificate.
C19_UnenrollRemovesHistory == [][C19_Unenroll]_vars /\ [][C19_Reenroll]_vars

\* The student enrolled again in a one-lesson course whose quiz they had passed
\* and whose certificate they had held before they unenrolled.
C19_Witness ==
    /\ resp.op = "enroll" /\ resp.status = 201
    /\ lessons = {QuizLesson} /\ ~lessonsChanged
    /\ quiz.exists /\ quiz.is_active /\ DOMAIN questions # {}
    /\ nextToken > 1
    /\ attempt_count(db) = 0
    /\ db.enrollment = EnrollmentRow(FALSE, NULL)
    /\ db.progress[QuizLesson] = ProgressRow(FALSE, NULL)
    /\ db.certs = {}

C20_Unenroll ==
    Serve(unenroll_result)
        => IF db.enrollment.exists
           THEN /\ resp'.status = 200
                /\ ~db'.enrollment.exists
           ELSE /\ resp'.status = 400 /\ resp'.error = "NotEnrolled"
                /\ db' = db

\* C20: unenroll fails with NotEnrolled, changing no row, exactly when the
\* student has no Enrollment for the course; whenever an Enrollment exists it
\* succeeds, also when the course was unpublished after the student enrolled.
C20_UnenrollIffEnrolled == [][C20_Unenroll]_vars

\* C21: under concurrent requests on one enrollment, two mark_complete requests
\* racing on the completion check or regenerate requests racing on delete and
\* create, no reachable state has two Certificate rows for the enrollment.
C21_OneCertificate == Cardinality(db.certs) <= 1

\* C22: under every interleaving of unenroll with the student's lesson views,
\* mark_complete requests and quiz submissions, no LessonProgress, QuizAttempt
\* or Certificate row exists in a state where its Enrollment does not.
C22_NoOrphanRows ==
    /\ \A l \in LessonIds : db.progress[l].exists => ForeignKey(db, db.progress[l].eid)
    /\ \A a \in BagToSet(db.attempts) : ForeignKey(db, a.eid)
    /\ \A c \in db.certs : ForeignKey(db, c.eid)

\* An unenroll ran to its end and the insert of a request that held the
\* enrollment was refused after it.
C22_Witness ==
    /\ ~db.enrollment.exists
    /\ \E r \in Requests : req[r].pc = "done" /\ req[r].out = IntegrityError
    /\ \E r \in Requests : req[r].pc = "done" /\ req[r].kind = "unenroll"

\* C23: an update or a delete of the course issued by a student or by an
\* instructor who does not own it is rejected and leaves the course, its
\* lessons and the enrollments, progress rows, attempts and certificates of the
\* course unchanged.
C23_OwnerOnly ==
    [][\A actor \in Actors \ {"owner"} :
           (CourseViewSet_destroy(actor)
            \/ \E value \in BOOLEAN : CourseViewSet_partial_update(actor, value))
           => /\ resp'.status >= 400
              /\ UNCHANGED <<lessons, published, quiz, questions, db>>]_vars

\* C24: every certificate_id stored by the completion of a course or by
\* regenerate is CERT- followed by exactly 12 upper-case hexadecimal digits, and
\* no two Certificate rows that exist at the same time have the same id.
UpperHex == {UpperDigits[n] : n \in 1..16}

C24_Format(id) ==
    /\ Len(id) = 17
    /\ SubSeq(id, 1, 5) = <<"C", "E", "R", "T", "-">>
    /\ \A i \in 6..17 : id[i] \in UpperHex

C24_CertificateIds ==
    /\ \A t \in db.certs : C24_Format(certificate_id_of(t))
    /\ \A t, u \in db.certs : t # u => certificate_id_of(t) # certificate_id_of(u)

\* Two certificates exist together after concurrent requests, one of them
\* with a letter among its digits.
C24_Witness ==
    /\ Cardinality(db.certs) = 2
    /\ \A r \in Requests : req[r].pc = "done"
    /\ \E t \in db.certs : \E i \in 6..17 : certificate_id_of(t)[i] \in {"A", "B", "C", "D", "E", "F"}

\* C25: verify is a lookup open to callers who are not authenticated: for every
\* caller and certificate_id it answers with the certificate's data exactly when
\* a Certificate with that id exists and with NotFound otherwise, and it creates,
\* changes and deletes no row.
C25_PublicLookup ==
    [][\A t \in Tokens, authenticated \in BOOLEAN :
           (resp'.op = "verify" /\ Serve(verify_request(authenticated, t)))
           => /\ resp'.status = 200 <=> t \in db.certs
              /\ t \notin db.certs => resp'.error = "NotFound"
              /\ db' = db]_vars

\* C26: while the Enrollment continues to exist, a request other than a lesson
\* reset leaves it with the certificate it had (enroll, the lesson view,
\* mark_complete, a quiz submission, verify and the instructor's requests), and
\* a successful regenerate leaves it with one certificate, the replacement.
C26_Holds == db.enrollment.exists /\ db.certs # {}

C26_OnlyResetRevokes ==
    [][(resp'.op # "reset" /\ C26_Holds /\ db'.enrollment.exists)
       => IF resp'.op = "regenerate" /\ resp'.status = 201
          THEN Cardinality(db'.certs) = 1 /\ db'.certs # db.certs
          ELSE db'.certs = db.certs]_vars

\* A quiz submission was stored for an enrollment that held a certificate, and
\* the certificate is still there.
C26_Witness ==
    /\ resp.op = "create" /\ resp.status = 201
    /\ pre.enrolled /\ pre.certs # {}
    /\ db.enrollment.exists /\ db.certs = pre.certs

\* C27: the view of a lesson of the course by the enrolled student creates the
\* LessonProgress row of that lesson with completed = false when there is none
\* and leaves an existing row's completed flag as it is; it changes no other
\* LessonProgress row, not the Enrollment, no QuizAttempt and no Certificate.
C27_View(l) ==
    (resp'.op = "retrieve" /\ db.enrollment.exists /\ l \in lessons
     /\ Serve(retrieve_result(l)))
    => /\ resp'.status = 200
       /\ db'.progress[l].exists
       /\ IF db.progress[l].exists
          THEN db'.progress[l] = db.progress[l]
          ELSE ~db'.progress[l].completed /\ db'.progress[l].completed_at = NULL
       /\ \A k \in LessonIds \ {l} : db'.progress[k] = db.progress[k]
       /\ db'.enrollment = db.enrollment
       /\ db'.attempts = db.attempts
       /\ db'.certs = db.certs

C27_ViewFrame == [][\A l \in LessonIds : C27_View(l)]_vars

\* The first view of a lesson that was added after the enrollment had been
\* completed: its row was created and the certificate is kept.
C27_Witness ==
    /\ resp.op = "retrieve" /\ resp.status = 200
    /\ Digest(db).rows = pre.rows + 1
    /\ db.enrollment.completed /\ db.certs # {}
    /\ Digest(db).done = pre.done

\* C28: a quiz submission that does not pass stores one QuizAttempt with
\* passed = false and changes no LessonProgress, not the Enrollment and no
\* Certificate; and no request changes a stored QuizAttempt: the attempts after
\* a step contain the attempts before it, unless the step is an unenroll.
C28_Failed ==
    (resp'.op = "create" /\ resp'.status = 201 /\ ~resp'.passed)
    => /\ \E a \in BagToSet(db'.attempts) :
              ~a.passed /\ db'.attempts = db.attempts (+) SetToBag({a})
       /\ db'.progress = db.progress
       /\ db'.enrollment = db.enrollment
       /\ db'.certs = db.certs

C28_Kept ==
    \/ db.attempts \sqsubseteq db'.attempts
    \/ resp'.op = "unenroll" /\ resp'.status = 200 /\ db'.attempts = EmptyBag

C28_FailedAttemptFrame == [][C28_Failed /\ C28_Kept]_vars

\* A failed attempt after a passed one, on a completed course: the lesson of
\* the quiz is still completed and the certificate is kept.
C28_Witness ==
    /\ resp.op = "create" /\ resp.status = 201 /\ ~resp.passed
    /\ BagCardinality(db.attempts) = pre.attempts + 1
    /\ quiz_passed(db)
    /\ db.progress[QuizLesson].completed
    /\ db.enrollment.completed /\ db.certs # {}

\* C29: the creation of a lesson changes no Enrollment, LessonProgress, attempt
\* or Certificate, so a completed enrollment stays completed with its
\* certificate, and the new lesson has no LessonProgress row; while the student
\* is enrolled, a row of a lesson comes into existence only by the view of the
\* lesson, by mark_complete or by a passed attempt at its quiz.
C29_Created ==
    resp'.op = "perform_create"
    => /\ db' = db
       /\ \A l \in lessons' \ lessons : ~db'.progress[l].exists

C29_FirstRow(l) ==
    (db.enrollment.exists /\ ~db.progress[l].exists /\ db'.progress[l].exists)
    => \/ resp'.op \in {"retrieve", "mark_complete"}
       \/ resp'.op = "create" /\ resp'.passed /\ l = quiz.lesson

C29_LessonCreationFrame == [][C29_Created /\ \A l \in LessonIds : C29_FirstRow(l)]_vars

\* A lesson was added to a course the student had completed: the enrollment is
\* still completed, holds its certificate and has no row for the new lesson.
C29_Witness ==
    /\ resp.op = "perform_create"
    /\ db.enrollment.completed /\ db.certs # {}
    /\ \E l \in lessons : ~db.progress[l].exists
    /\ completed_lessons(db) < total_lessons(lessons)

\* C30: a reset by the enrolled student on a lesson of the course that has no
\* LessonProgress row answers NotFound, creates no row and changes nothing; a
\* successful reset on an enrollment that is not completed changes only the
\* LessonProgress row of that lesson.
C30_Reset(l) ==
    (resp'.op = "reset" /\ db.enrollment.exists /\ l \in lessons
     /\ Serve(reset_result(l)))
    => IF ~db.progress[l].exists
       THEN resp'.status = 404 /\ resp'.error = "NotFound" /\ db' = db
       ELSE /\ resp'.status = 200
            /\ db'.progress[l].exists /\ ~db'.progress[l].completed
            /\ ~db.enrollment.completed
               => /\ \A k \in LessonIds \ {l} : db'.progress[k] = db.progress[k]
                  /\ db'.enrollment = db.enrollment
                  /\ db'.attempts = db.attempts
                  /\ db'.certs = db.certs

C30_ResetMissingRow == [][\A l \in LessonIds : C30_Reset(l)]_vars

\* The reset of a lesson that was added after the enrollment had been completed
\* and never viewed: NotFound, and the enrollment keeps its certificate.
C30_Witness ==
    /\ resp.op = "reset" /\ resp.status = 404
    /\ db.enrollment.completed /\ db.certs # {}
    /\ \E l \in lessons : ~db.progress[l].exists
    /\ Digest(db) = pre

====
